---- MODULE Spec2Model ----
(***************************************************************************)
(* Model of the web research agent: infer_fields_from_task,                *)
(* process_single_action and process_task (web_research_agent/agent.py)    *)
(* on top of ask_claude and process_anthropic_response                     *)
(* (web_research_agent/utils.py).                                          *)
(*                                                                         *)
(* One run of process_task is modelled.  The language-model service and    *)
(* the tool executors are the environment: every call to them picks one of *)
(* a finite set of outcomes.                                               *)
(*                                                                         *)
(* Python values are modelled structurally:                                *)
(*   - a string is a sequence of fragments (so that concatenation is \o    *)
(*     and "contains" / "starts with" are computable);                     *)
(*   - a JSON value is a record with a type tag; an object carries the     *)
(*     three keys the orchestrator reads, each one a Field (kind, seq);    *)
(*   - a text is either JSON-encoded (json = TRUE) or not parseable.       *)
(***************************************************************************)
EXTENDS Integers, Sequences, FiniteSets, TLC

VARIABLES
    pc,             \* position of the run: "start", "infer", "loop", "driver", "extract", "returned", "raised"
    max_searches,   \* process_task argument
    max_results,    \* process_task argument
    fields,         \* process_task local: the inferred field schema
    all_results,    \* process_task local
    action_history, \* process_task local
    search_count,   \* process_task local
    result,         \* process_task local: the last parsed reply (Unbound before the first)
    stop,           \* which break left the while loop
    messages,       \* process_anthropic_response argument (the conversation of the exchange)
    max_calls,      \* process_anthropic_response argument (remaining depth)
    response,       \* value returned by process_anthropic_response
    ret,            \* value returned by process_task
    error,          \* exception that left process_task
    exchanges,      \* number of process_single_action calls of the run
    api_calls,      \* number of client.messages.create calls of the current exchange
    round_trips,    \* number of tool round trips of the current exchange
    last_call,      \* outcome of the last client.messages.create call
    tool_log,       \* the executor calls made for the last tool-use response
    ask,            \* what the service did for the call of ask_claude
    ask_calls,      \* number of client.messages.create calls made by ask_claude
    seen            \* the results values of the replies processed so far, concatenated

vars == <<pc, max_searches, max_results, fields, all_results, action_history,
          search_count, result, stop, messages, max_calls, response, ret,
          error, exchanges, api_calls, round_trips, last_call, tool_log,
          ask, ask_calls, seen>>

(***************************************************************************)
(* Bounds of the model and constants of the program.                       *)
(***************************************************************************)
MaxSearches == 2
MaxResults == 2

DefaultMaxCalls == 5

Min(a, b) == IF a < b THEN a ELSE b

(***************************************************************************)
(* JSON values and texts.                                                  *)
(***************************************************************************)
F(kind, seq) == [kind |-> kind, seq |-> seq]
Absent == F("absent", <<>>)
Str(seq) == F("str", seq)
List(seq) == F("list", seq)
Null == F("null", <<>>)
IntVal(tok) == F("int", <<tok>>)

Obj(r, c, n) == [type |-> "object", results |-> r, comments |-> c, next_action |-> n]
NonObj(t) == [type |-> t, results |-> Absent, comments |-> Absent, next_action |-> Absent]
EmptyDict == Obj(Absent, Absent, Absent)
Unbound == NonObj("unbound")

\* `is not None` where the truth value is meant: "" and 0 count as true
TruthyNotNone(f) == f.kind \notin {"absent", "null"}

\* bool(x) of Python for the value of a key
Truthy(f) ==
    CASE f.kind \in {"str", "list"} -> f.seq # <<>>
      [] f.kind = "int" -> f.seq # <<"0">>
      [] OTHER -> FALSE

\* x[:n] is defined for strings and lists only
Sliceable(f) == f.kind \in {"str", "list"}

RawText(s) == [json |-> FALSE, raw |-> s, val |-> NonObj("null")]
json_dumps(v) == [json |-> TRUE, raw |-> "", val |-> v]
json_loads(t) == IF t.json THEN [ok |-> TRUE, val |-> t.val]
                 ELSE [ok |-> FALSE, val |-> NonObj("null")]

(***************************************************************************)
(* Content blocks and responses.                                           *)
(***************************************************************************)
TextBlock(t) == [type |-> "text", text |-> t, name |-> "", id |-> ""]
ToolUse(name, id) == [type |-> "tool_use", text |-> RawText(""), name |-> name, id |-> id]

Message(stop_reason, content) ==
    [cls |-> "Message", stop_reason |-> stop_reason, content |-> content]
NoResponse == [cls |-> "none", stop_reason |-> "", content |-> <<>>]

ErrorComment == <<"Error: ", "e">>

\* the synthetic response as a JSON payload that asks for another iteration
MaxCallsResponseJson ==
    [cls |-> "Obj", stop_reason |-> "end_turn",
     content |-> <<TextBlock(json_dumps(Obj(List(<<>>), Str(<<"Max API calls reached.">>),
                                            Str(<<"retry">>))))>>]

MaxCallsResponse ==
    [cls |-> "Obj", stop_reason |-> "end_turn",
     content |-> <<TextBlock(RawText("Max API calls reached."))>>]

\* the payload with a next_action that asks for another iteration
FallbackResponseRetry ==
    [cls |-> "Obj", stop_reason |-> "end_turn",
     content |-> <<TextBlock(json_dumps(Obj(List(<<>>), Str(ErrorComment), Str(<<"retry">>))))>>]

FallbackResponse ==
    [cls |-> "Obj", stop_reason |-> "end_turn",
     content |-> <<TextBlock(json_dumps(Obj(List(<<>>), Str(ErrorComment), Str(<<>>))))>>]

(***************************************************************************)
(* ask_claude and infer_fields_from_task.                                  *)
(***************************************************************************)
Elem(t, v) == [t |-> t, v |-> v]
AskText(json, raw, jtype, elems) == [json |-> json, raw |-> raw, jtype |-> jtype, elems |-> elems]
NoAskText == AskText(FALSE, "", "null", <<>>)
NoAsk == [call |-> "none", has_text |-> FALSE, text |-> NoAskText]

\* what client.messages.create can do for ask_claude: raise, or answer with
\* a message whose first text block (if any) carries the text
AskOutcomes ==
    { [call |-> "raises", has_text |-> FALSE, text |-> NoAskText],
      [call |-> "ok", has_text |-> FALSE, text |-> NoAskText],
      [call |-> "ok", has_text |-> TRUE, text |-> AskText(FALSE, "", "null", <<>>)],
      [call |-> "ok", has_text |-> TRUE, text |-> AskText(FALSE, "The fields are: title", "null", <<>>)],
      [call |-> "ok", has_text |-> TRUE, text |-> AskText(TRUE, "", "object", <<>>)],
      [call |-> "ok", has_text |-> TRUE, text |-> AskText(TRUE, "", "string", <<>>)],
      [call |-> "ok", has_text |-> TRUE, text |-> AskText(TRUE, "", "array", <<Elem("int", "1")>>)],
      [call |-> "ok", has_text |-> TRUE, text |-> AskText(TRUE, "", "array", <<Elem("str", "title"), Elem("int", "2")>>)],
      [call |-> "ok", has_text |-> TRUE, text |-> AskText(TRUE, "", "array", <<>>)],
      [call |-> "ok", has_text |-> TRUE, text |-> AskText(TRUE, "", "array", <<Elem("str", "title")>>)] }

\* ask_claude: the first text block's text, or None
ask_claude(o) ==
    IF o.call = "raises" \/ ~o.has_text
    THEN [none |-> TRUE, text |-> NoAskText]
    ELSE [none |-> FALSE, text |-> o.text]

DefaultFields == <<"name", "description">>

\* the parse without the check that every element is a string
infer_fields_unvalidated(o) ==
    LET response_text == ask_claude(o)
        t == response_text.text
    IN  IF response_text.none \/ (~t.json /\ t.raw = "") THEN DefaultFields
        ELSE IF ~t.json THEN DefaultFields
        ELSE IF t.jtype # "array" THEN DefaultFields
        ELSE [i \in 1..Len(t.elems) |-> t.elems[i].v]

infer_fields_from_task(o) ==
    LET response_text == ask_claude(o)
        t == response_text.text
    IN  IF response_text.none \/ (~t.json /\ t.raw = "") THEN DefaultFields
        ELSE IF ~t.json THEN DefaultFields
        ELSE IF t.jtype # "array" \/ \E i \in 1..Len(t.elems) : t.elems[i].t # "str"
             THEN DefaultFields
        ELSE [i \in 1..Len(t.elems) |-> t.elems[i].v]

(***************************************************************************)
(* Tool dispatch of process_anthropic_response.                            *)
(***************************************************************************)
ToolResult(id, content) == [type |-> "tool_result", tool_use_id |-> id, content |-> content]

KnownTools == {"search_web", "fetch_page"}

\* what an executor call can do: return data, return its failure marker
\* ([] for google_search, None for get_url_content), or raise
Outcomes == {"ok", "none", "raise"}

\* the except branch echoing the tool name where the id belongs
ToolResultForWrongId(block, outcome) ==
    IF outcome = "raise" THEN ToolResult(block.name, "Tool error: e")
    ELSE IF block.name = "search_web"
         THEN ToolResult(block.id, IF outcome = "ok" THEN "[\"http://u\"]" ELSE "[]")
         ELSE ToolResult(block.id, IF outcome = "ok" THEN "page text" ELSE "Failed to fetch page")

\* the tool_result appended for one tool_use block, given the executor outcome
ToolResultFor(block, outcome) ==
    IF outcome = "raise" THEN ToolResult(block.id, "Tool error: e")
    ELSE IF block.name = "search_web"
         THEN ToolResult(block.id, IF outcome = "ok" THEN "[\"http://u\"]" ELSE "[]")
         ELSE ToolResult(block.id, IF outcome = "ok" THEN "page text" ELSE "Failed to fetch page")

RECURSIVE tool_outputs(_, _, _)
tool_outputs(content, outcome, i) ==
    IF i > Len(content) THEN <<>>
    ELSE LET block == content[i]
             rest == tool_outputs(content, outcome, i + 1)
         IN  IF block.type = "tool_use" /\ block.name \in KnownTools
             THEN <<ToolResultFor(block, outcome[i])>> \o rest
             ELSE rest

\* the executor calls made while serving a tool-use response
RECURSIVE executor_calls(_, _, _)
executor_calls(content, outcome, i) ==
    IF i > Len(content) THEN <<>>
    ELSE LET block == content[i]
             rest == executor_calls(content, outcome, i + 1)
         IN  IF block.type = "tool_use" /\ block.name \in KnownTools
             THEN <<[id |-> block.id, name |-> block.name, outcome |-> outcome[i]]>> \o rest
             ELSE rest

Turn(role, text, blocks, tool_results) ==
    [role |-> role, text |-> text, blocks |-> blocks, tool_results |-> tool_results]

(***************************************************************************)
(* The replies of the language-model service.                              *)
(***************************************************************************)
NextStep == Str(<<"look further">>)
Done == Str(<<>>)

\* replies after which the loop goes on (a true next_action, nothing raised)
ContinuingReplies ==
    { Obj(List(<<"itemA", "itemB", "itemC">>), Str(<<"three found">>), NextStep),
      Obj(List(<<"itemA">>), Str(<<"one found">>), NextStep),
      Obj(List(<<>>), Str(<<"nothing yet">>), NextStep),
      Obj(Absent, Absent, NextStep),
      Obj(Str(<<"a", "b">>), Null, IntVal("7")) }

\* replies that end the loop or make it raise
EndingReplies ==
    { Obj(List(<<"itemA", "itemB", "itemC">>), Str(<<"three found">>), Done),
      Obj(List(<<"itemB">>), Str(<<"one found">>), Done),
      Obj(List(<<"itemA">>), Absent, Absent),
      Obj(List(<<>>), Str(<<>>), Null),
      Obj(Absent, Str(<<"no results key">>), Done),
      Obj(List(<<"itemA">>), Null, Done),
      Obj(List(<<"itemA">>), IntVal("3"), IntVal("0")),
      Obj(Null, Str(<<"results is null">>), NextStep),
      Obj(IntVal("4"), Str(<<"results is a number">>), Done),
      NonObj("array"), NonObj("string"), NonObj("number"), NonObj("null") }

Replies == ContinuingReplies \cup EndingReplies

NoOutcome == <<"ok", "ok", "ok">>

\* a reply of client.messages.create together with what the executors do
\* for its tool_use blocks (outcome[i] belongs to content[i])
TerminalReplies ==
    { [resp |-> Message("end_turn", <<TextBlock(json_dumps(v))>>), outcome |-> NoOutcome] : v \in Replies }
    \cup
    { [resp |-> Message("end_turn", <<TextBlock(RawText("Here is what I found."))>>), outcome |-> NoOutcome],
      [resp |-> Message("end_turn", <<>>), outcome |-> NoOutcome],
      [resp |-> Message("max_tokens", <<TextBlock(RawText("{ results: [ "))>>), outcome |-> NoOutcome],
      [resp |-> Message("tool_use", <<ToolUse("get_weather", "toolu_1")>>), outcome |-> NoOutcome] }

FetchAndSearch == <<ToolUse("fetch_page", "toolu_1"), ToolUse("search_web", "toolu_2")>>
SearchAndUnknown ==
    <<TextBlock(RawText("Let me search.")), ToolUse("search_web", "toolu_1"), ToolUse("get_weather", "toolu_2")>>

ToolUseReplies ==
    { [resp |-> Message("tool_use", FetchAndSearch), outcome |-> <<"ok", "ok", "ok">>],
      [resp |-> Message("tool_use", FetchAndSearch), outcome |-> <<"raise", "ok", "ok">>],
      [resp |-> Message("tool_use", FetchAndSearch), outcome |-> <<"none", "raise", "ok">>],
      [resp |-> Message("tool_use", SearchAndUnknown), outcome |-> <<"ok", "none", "ok">>] }

ServiceReplies == TerminalReplies \cup ToolUseReplies

(***************************************************************************)
(* process_single_action: the parse of the exchange's response.            *)
(***************************************************************************)
TextIndexes(content) == {i \in 1..Len(content) : content[i].type = "text"}

\* the parse that gives None, not {}, when no text block can be parsed
process_single_action_none(resp) ==
    IF TextIndexes(resp.content) = {} THEN NonObj("null")
    ELSE LET i == CHOOSE j \in TextIndexes(resp.content) :
                      \A k \in TextIndexes(resp.content) : j <= k
             parsed == json_loads(resp.content[i].text)
         IN  IF parsed.ok THEN parsed.val ELSE NonObj("null")

process_single_action(resp) ==
    IF TextIndexes(resp.content) = {} THEN EmptyDict
    ELSE LET i == CHOOSE j \in TextIndexes(resp.content) :
                      \A k \in TextIndexes(resp.content) : j <= k
             parsed == json_loads(resp.content[i].text)
         IN  IF parsed.ok THEN parsed.val ELSE EmptyDict

(***************************************************************************)
(* process_task: the loop body after the exchange, and the return.         *)
(***************************************************************************)
\* search_count >= max_searches
BudgetReachedStrict(count, budget) == count > budget
BudgetReached(count, budget) == count >= budget

\* new_results[:remaining_capacity]
SliceAll(seq, n) == seq
\* new_results[-remaining_capacity:]
SliceTail(seq, n) == SubSeq(seq, Len(seq) - Min(n, Len(seq)) + 1, Len(seq))
Slice(seq, n) == SubSeq(seq, 1, Min(n, Len(seq)))

LimitNote == <<"\nSearch limit reached: True">>

Outcome(p, results, history, why, r, e) ==
    [pc |-> p, all_results |-> results, action_history |-> history, stop |-> why, ret |-> r, error |-> e]

NoReturn == [results |-> <<>>, comments |-> <<>>]

\* the return statement of process_task
Finalize(res, results, history, count, budget, why) ==
    IF res.type = "unbound"
    THEN Outcome("raised", results, history, why, NoReturn, "UnboundLocalError")
    ELSE IF res.comments.kind \notin {"absent", "str"}
    THEN Outcome("raised", results, history, why, NoReturn, "TypeError")
    ELSE Outcome("returned", results, history, why,
                 [results |-> results,
                  comments |-> res.comments.seq \o
                               (IF BudgetReached(count, budget) THEN LimitNote ELSE <<>>)],
                 "")

\* the continue decision
Continue(res, results, history, count, budget) ==
    IF ~Truthy(res.next_action)
    THEN Finalize(res, results, history, count, budget, "no_next_action")
    ELSE Outcome("loop", results, Append(history, res.next_action.seq), "", NoReturn, "")

\* the body of the while loop after process_single_action has returned res
Accumulate(res, results, history, count, budget, capacity) ==
    IF res.type \in {"number", "null"}
    THEN Outcome("raised", results, history, "", NoReturn, "TypeError")
    ELSE IF res.type # "object"
    THEN Outcome("raised", results, history, "", NoReturn, "AttributeError")
    ELSE IF res.results.kind # "absent"
    THEN LET remaining_capacity == capacity - Len(results)
         IN  IF remaining_capacity <= 0
             THEN Finalize(res, results, history, count, budget, "results_budget")
             ELSE IF ~Sliceable(res.results)
             THEN Outcome("raised", results, history, "", NoReturn, "TypeError")
             ELSE Continue(res, results \o Slice(res.results.seq, remaining_capacity),
                           history, count, budget)
    ELSE Continue(res, results, history, count, budget)

(***************************************************************************)
(* The state machine.                                                      *)
(***************************************************************************)
\* TASK_TEMPLATE.format(NEXT_TASK=..., ACTION_HISTORY=...)
Prompt(history) ==
    [next_task |-> IF history = <<>> THEN <<>> ELSE history[Len(history)],
     history |-> history]
NoPrompt == Prompt(<<>>)

\* max_calls <= 0
DepthReachedStrict(depth) == depth < 0
DepthReached(depth) == depth <= 0

Init ==
    /\ pc = "start"
    /\ max_searches \in 0..MaxSearches
    /\ max_results \in 1..MaxResults
    /\ fields = <<>>
    /\ all_results = <<>>
    /\ action_history = <<>>
    /\ search_count = 0
    /\ result = Unbound
    /\ stop = ""
    /\ messages = <<>>
    /\ max_calls = 0
    /\ response = NoResponse
    /\ ret = NoReturn
    /\ error = ""
    /\ exchanges = 0
    /\ api_calls = 0
    /\ round_trips = 0
    /\ last_call = "none"
    /\ tool_log = <<>>
    /\ ask = NoAsk
    /\ ask_calls = 0
    /\ seen = <<>>

driver_vars == <<messages, max_calls, response, api_calls, round_trips, last_call, tool_log>>
task_vars == <<all_results, action_history, search_count, result, stop, ret, error, seen>>
infer_vars == <<ask, ask_calls>>

\* the service call of ask_claude, made for infer_fields_from_task
AskClaude ==
    /\ pc = "start"
    /\ \E o \in AskOutcomes : ask' = o
    /\ ask_calls' = ask_calls + 1
    /\ pc' = "infer"
    /\ UNCHANGED <<max_searches, max_results, fields, task_vars, driver_vars, exchanges>>

\* process_task up to the loop: the schema inference and the initial state
InferFields ==
    /\ pc = "infer"
    /\ fields' = infer_fields_from_task(ask)
    /\ ask' = NoAsk
    /\ pc' = "loop"
    /\ UNCHANGED <<max_searches, max_results, task_vars, driver_vars, exchanges, ask_calls>>

\* the head of the while loop: leave on the iteration budget, or start the
\* exchange of process_single_action with a fresh one-turn conversation
Iterate ==
    /\ pc = "loop"
    /\ IF BudgetReached(search_count, max_searches)
       THEN LET o == Finalize(result, all_results, action_history, search_count,
                              max_searches, "iteration_budget")
            IN  /\ pc' = o.pc
                /\ stop' = o.stop
                /\ ret' = o.ret
                /\ error' = o.error
                /\ UNCHANGED <<driver_vars, exchanges>>
       ELSE /\ pc' = "driver"
            /\ messages' = <<Turn("user", Prompt(action_history), <<>>, <<>>)>>
            /\ max_calls' = DefaultMaxCalls
            /\ response' = NoResponse
            /\ exchanges' = exchanges + 1
            /\ api_calls' = 0
            /\ round_trips' = 0
            /\ last_call' = "none"
            /\ tool_log' = <<>>
            /\ UNCHANGED <<stop, ret, error>>
    /\ UNCHANGED <<max_searches, max_results, fields, infer_vars, seen, all_results, action_history,
                   search_count, result>>

\* process_anthropic_response with no depth left: the synthetic response
DepthExhausted ==
    /\ pc = "driver"
    /\ DepthReached(max_calls)
    /\ response' = MaxCallsResponse
    /\ pc' = "extract"
    /\ messages' = <<>>
    /\ tool_log' = <<>>
    /\ UNCHANGED <<max_searches, max_results, fields, infer_vars, task_vars, exchanges,
                   max_calls, api_calls, round_trips, last_call>>

\* client.messages.create raises: the fallback payload
ServiceFails ==
    /\ pc = "driver"
    /\ ~DepthReached(max_calls)
    /\ api_calls' = api_calls + 1
    /\ last_call' = "error"
    /\ response' = FallbackResponse
    /\ pc' = "extract"
    /\ messages' = <<>>
    /\ tool_log' = <<>>
    /\ UNCHANGED <<max_searches, max_results, fields, infer_vars, task_vars, exchanges,
                   max_calls, round_trips>>

\* the response asks for tools and at least one tool_result was produced:
\* both turns are appended and the driver recurses with one call less
ToolRoundTrip ==
    /\ pc = "driver"
    /\ ~DepthReached(max_calls)
    /\ \E r \in ServiceReplies :
         LET outputs == tool_outputs(r.resp.content, r.outcome, 1)
         IN  /\ r.resp.stop_reason = "tool_use"
             /\ outputs # <<>>
             /\ messages' = messages \o
                     <<Turn("assistant", NoPrompt, r.resp.content, <<>>),
                       Turn("user", NoPrompt, <<>>, outputs)>>
             /\ tool_log' = executor_calls(r.resp.content, r.outcome, 1)
    /\ max_calls' = max_calls - 1
    /\ api_calls' = api_calls + 1
    /\ round_trips' = round_trips + 1
    /\ last_call' = "ok"
    /\ pc' = "driver"
    /\ UNCHANGED <<max_searches, max_results, fields, infer_vars, task_vars, exchanges, response>>

\* any other response is returned as it is
ServiceAnswers ==
    /\ pc = "driver"
    /\ ~DepthReached(max_calls)
    /\ \E r \in ServiceReplies :
         /\ ~(r.resp.stop_reason = "tool_use" /\ tool_outputs(r.resp.content, r.outcome, 1) # <<>>)
         /\ response' = r.resp
    /\ api_calls' = api_calls + 1
    /\ last_call' = "ok"
    /\ pc' = "extract"
    /\ messages' = <<>>
    /\ tool_log' = <<>>
    /\ UNCHANGED <<max_searches, max_results, fields, infer_vars, task_vars, exchanges,
                   max_calls, round_trips>>

\* process_single_action parses the response; process_task counts the
\* search, accumulates, and either loops, returns or raises
Extract ==
    /\ pc = "extract"
    /\ LET res == process_single_action(response)
           o == Accumulate(res, all_results, action_history, search_count + 1,
                           max_searches, max_results)
       IN  /\ result' = res
           /\ seen' = seen \o (IF res.type = "object" /\ Sliceable(res.results)
                               THEN res.results.seq ELSE <<>>)
           /\ search_count' = search_count + 1
           /\ pc' = o.pc
           /\ all_results' = o.all_results
           /\ action_history' = o.action_history
           /\ stop' = o.stop
           /\ ret' = o.ret
           /\ error' = o.error
    /\ UNCHANGED <<max_searches, max_results, fields, infer_vars, driver_vars, exchanges>>

Next ==
    \/ AskClaude
    \/ InferFields
    \/ Iterate
    \/ DepthExhausted
    \/ ServiceFails
    \/ ToolRoundTrip
    \/ ServiceAnswers
    \/ Extract

Spec == Init /\ [][Next]_vars

\* the run is one sequential thread: a step that can be taken is taken
FairSpec == Spec /\ WF_vars(Next)

TypeOK ==
    /\ pc \in {"start", "infer", "loop", "driver", "extract", "returned", "raised"}
    /\ search_count \in 0..(MaxSearches + 1)
    /\ stop \in {"", "iteration_budget", "results_budget", "no_next_action"}

(***************************************************************************)
(* Helpers of the properties.                                              *)
(***************************************************************************)
Range(seq) == {seq[i] : i \in 1..Len(seq)}
HasNote(comments) == \E i \in 1..Len(comments) : comments[i] = LimitNote[1]
ContainsError(comments) == \E i \in 1..Len(comments) : comments[i] = "Error: "
SomeToolRaised == \E i \in 1..Len(tool_log) : tool_log[i].outcome = "raise"
KnownRequests(blocks) ==
    {i \in 1..Len(blocks) : blocks[i].type = "tool_use" /\ blocks[i].name \in KnownTools}
Requests(blocks) == {i \in 1..Len(blocks) : blocks[i].type = "tool_use"}
\* the first n items of seq (all of it when it is shorter)
FirstItems(seq, n) == [i \in 1..(IF n < Len(seq) THEN n ELSE Len(seq)) |-> seq[i]]
IsPrefix(a, b) == Len(a) <= Len(b) /\ \A i \in 1..Len(a) : a[i] = b[i]
\* a parsed reply without a next action: the key is missing, or its value is
\* null, zero or an empty string
NoNextAction(v) ==
    \/ v.next_action.kind \in {"absent", "null"}
    \/ v.next_action.seq = <<>>
    \/ v.next_action = IntVal("0")
\* the service call of ask_claude failed, or gave no text, an empty text, a
\* text that is not JSON, or JSON that is not a list of strings
NoFieldList(o) ==
    \/ o.call = "raises"
    \/ ~o.has_text
    \/ ~o.text.json
    \/ o.text.jtype # "array"
    \/ \E i \in 1..Len(o.text.elems) : o.text.elems[i].t # "str"
\* the response has no text block, or no text block that is JSON
NoParsableText(resp) ==
    \A i \in 1..Len(resp.content) :
        resp.content[i].type = "text" => ~resp.content[i].text.json
\* the comments say something besides the limit note
ReportsSomething(comments) ==
    \E i \in 1..Len(comments) : comments[i] \notin {"", LimitNote[1]}
\* the reply that Extract is about to process
Parsed == process_single_action(response)
\* the run has ended, by a return or by an exception leaving process_task
Termination == <>(pc \in {"returned", "raised"})

(***************************************************************************)
(* Properties.                                                             *)
(***************************************************************************)

\* C1: with a positive result budget the accumulated results never hold more
\* than max_results items, at any point of the run and in the returned object.
C1_ResultBudget ==
    max_results > 0 =>
        /\ Len(all_results) <= max_results
        /\ (pc = "returned" => Len(ret.results) <= max_results)

\* a run that returned a full list whose last reply held more items than fitted
C1_Witness ==
    /\ pc = "returned"
    /\ stop = "no_next_action"
    /\ search_count = 2
    /\ Len(ret.results) = max_results
    /\ result.results.kind = "list"
    /\ Len(result.results.seq) > max_results

\* C2: the number of process_single_action calls never exceeds max_searches,
\* and a call is issued only at the loop head, one per iteration: each call is
\* counted in search_count before the next one is issued.
C2_IterationBudget ==
    /\ [](exchanges <= max_searches /\ search_count <= exchanges
                                    /\ exchanges <= search_count + 1)
    /\ [][exchanges' # exchanges =>
              (pc = "loop" /\ exchanges = search_count /\ exchanges' = exchanges + 1)]_vars

\* the whole iteration budget was used and the loop head is reached again
C2_Witness ==
    /\ pc = "loop"
    /\ max_searches >= 2
    /\ exchanges = max_searches
    /\ search_count = max_searches

\* C3: within one exchange the service is called at most DefaultMaxCalls (5)
\* times and at most 5 tool round trips happen, whatever max_searches is; with
\* no depth left the driver returns the synthetic "Max API calls reached."
\* response with stop-reason end_turn and does not call the service.
C3_DepthBudget ==
    /\ [](api_calls <= DefaultMaxCalls /\ round_trips <= DefaultMaxCalls)
    /\ [][(pc = "driver" /\ max_calls <= 0) =>
              /\ api_calls' = api_calls
              /\ pc' = "extract"
              /\ response'.stop_reason = "end_turn"
              /\ Len(response'.content) = 1
              /\ response'.content[1].type = "text"
              /\ response'.content[1].text.raw = "Max API calls reached."]_vars

\* an exchange that ended on the depth budget after 5 calls and 5 round trips
C3_Witness ==
    /\ pc = "extract"
    /\ response = MaxCallsResponse
    /\ api_calls = DefaultMaxCalls
    /\ round_trips = DefaultMaxCalls

\* C4: for positive budgets and every reply of the service, process_task
\* returns an object and never lets an error cross its boundary.
C4_NeverRaises ==
    (max_searches > 0 /\ max_results > 0) => pc # "raised"

\* C5: once a reply has brought the accumulated count up to max_results, no
\* further exchange is issued: an exchange runs only while there is room.
C5_StopsWhenFull ==
    pc = "driver" => Len(all_results) < max_results

\* C6: when a service call fails the driver returns the fallback payload
\* (empty results, a comment starting with "Error", empty next_action);
\* process_task then issues no further exchange and returns the results of
\* the earlier iterations with comments containing "Error", without raising.
C6_TransportFailure ==
    /\ []((pc = "extract" /\ last_call = "error") =>
            LET payload == process_single_action(response)
            IN  /\ payload.type = "object"
                /\ payload.results = List(<<>>)
                /\ payload.comments.kind = "str"
                /\ payload.comments.seq # <<>>
                /\ payload.comments.seq[1] = "Error: "
                /\ payload.next_action = Str(<<>>))
    /\ [][(pc = "extract" /\ last_call = "error") =>
              /\ pc' = "returned"
              /\ exchanges' = exchanges
              /\ ret'.results = all_results
              /\ (search_count = 0 => ret'.results = <<>>)
              /\ ContainsError(ret'.comments)]_vars
    /\ [](pc = "returned" => ~ENABLED Next)

\* a run that returned after a service failure that followed a tool round
\* trip, in an iteration after one that had produced results
C6_Witness ==
    /\ pc = "returned"
    /\ last_call = "error"
    /\ round_trips > 0
    /\ search_count = 2
    /\ Len(ret.results) > 0
    /\ ContainsError(ret.comments)

\* C7: with positive budgets every run of process_task eventually returns.
C7_EventuallyReturns ==
    (max_searches > 0 /\ max_results > 0) => <>(pc = "returned")

C9_EveryRequestAnswered ==
    /\ (pc = "driver" /\ Len(messages) >= 3) =>
            LET asked == messages[Len(messages) - 1]
                answer == messages[Len(messages)]
            IN  \A b \in Requests(asked.blocks) :
                    Cardinality({j \in 1..Len(answer.tool_results) :
                        answer.tool_results[j].tool_use_id = asked.blocks[b].id}) = 1
    /\ (pc = "extract" /\ response.stop_reason = "tool_use") =>
            Requests(response.content) = {}

\* C10: the returned comments carry the "Search limit reached" note only when
\* the loop was left because the iteration budget was exhausted.
C10_NoteOnlyOnBudgetStop ==
    (pc = "returned" /\ HasNote(ret.comments)) => stop = "iteration_budget"

\* C11: when the reply of the last allowed iteration carries a non-empty
\* next_action, the run returns after exactly max_searches exchanges, the
\* results of that iteration are kept up to the result budget, in order, and
\* the returned comments are that iteration's comments followed by the
\* "Search limit reached: True" note.
C11_LastIterationContinues ==
    /\ [][(pc = "extract" /\ search_count + 1 = max_searches
              /\ Parsed.type = "object" /\ ~NoNextAction(Parsed)) =>
              /\ pc' \in {"loop", "returned"}
              /\ exchanges' = max_searches
              /\ all_results' = FirstItems(seen', max_results)
              /\ (pc' = "returned" =>
                    /\ ret'.results = all_results'
                    /\ ret'.comments = Parsed.comments.seq \o LimitNote)]_vars
    /\ [][(pc = "loop" /\ search_count > 0 /\ search_count = max_searches) =>
              /\ pc' = "returned"
              /\ exchanges' = max_searches
              /\ ret'.results = all_results
              /\ ret'.comments = result.comments.seq \o LimitNote]_vars

C13_SchemaFallback ==
    /\ [][pc = "infer" =>
              /\ pc' = "loop"
              /\ ask_calls' = ask_calls
              /\ (NoFieldList(ask) => fields' = <<"name", "description">>)]_vars
    /\ [](ask_calls <= 1)
    /\ [](pc \notin {"start", "infer"} => ask_calls = 1)

\* the inference fell back to the default schema after its one service call
C13_Witness ==
    /\ pc = "loop"
    /\ exchanges = 0
    /\ ask_calls = 1
    /\ fields = <<"name", "description">>

\* C14: the Field Schema returned by infer_fields_from_task holds at least
\* one field name, for every response of the service.
C14_SchemaNonEmpty ==
    pc \notin {"start", "infer"} => Len(fields) > 0

\* C15: when the terminal response of an exchange has no text block, or a
\* text that is not parseable JSON, the iteration adds no results and has no
\* next action: the run ends on that iteration with no further exchange and
\* returns the results of the earlier iterations unchanged.
C15_MalformedReplyEndsRun ==
    [][(pc = "extract" /\ NoParsableText(response)) =>
          /\ pc' = "returned"
          /\ stop' = "no_next_action"
          /\ exchanges' = exchanges
          /\ all_results' = all_results
          /\ action_history' = action_history
          /\ ret'.results = all_results]_vars

\* the second iteration got a reply of the service that cannot be parsed and
\* the run returned the items of the first iteration
C15_Witness ==
    /\ pc = "returned"
    /\ search_count = 2
    /\ response.cls = "Message"
    /\ NoParsableText(response)
    /\ Len(ret.results) > 0
    /\ ret.results = all_results

\* C16: when a run ends because of a failure (a transport failure, a
\* malformed reply, an exchange that exhausted its depth budget), the
\* comments of the returned result are not empty and report the failure.
C16_FailuresReported ==
    (pc = "returned" /\ stop # "iteration_budget"
        /\ (last_call = "error" \/ NoParsableText(response))) =>
            ReportsSomething(ret.comments)

\* C17: a reply with zero results and a non-empty next_action does not end
\* the run while both budgets have room: the next exchange is issued.  A run
\* ends only through an empty next_action, an exhausted iteration budget or
\* an exhausted results budget.
C17_OnlyThreeWaysToEnd ==
    /\ [][(pc = "extract" /\ Parsed.type = "object" /\ Parsed.results = List(<<>>)
              /\ ~NoNextAction(Parsed)
              /\ search_count + 1 < max_searches
              /\ Len(all_results) < max_results) =>
              (pc' = "loop" /\ all_results' = all_results)]_vars
    /\ [][(pc = "loop" /\ search_count < max_searches) =>
              (pc' = "driver" /\ exchanges' = exchanges + 1)]_vars
    /\ [](pc \in {"returned", "raised"} =>
              stop \in {"no_next_action", "iteration_budget", "results_budget"})

\* C18: at every point of a run the accumulated results are the first
\* min(max_results, n) items of the concatenation, in iteration order, of the
\* results of the replies processed so far (n its length); items already
\* accumulated are never removed or reordered.
C18_AccumulatedPrefix ==
    /\ [](all_results = FirstItems(seen, max_results))
    /\ [][IsPrefix(all_results, all_results')]_vars

\* two iterations: one item, then three of which only one fitted
C18_Witness ==
    /\ pc = "loop"
    /\ search_count = 2
    /\ max_results = 2
    /\ seen = <<"itemA", "itemA", "itemB", "itemC">>
    /\ all_results = <<"itemA", "itemA">>

\* C19: whenever an iteration reaches the accumulation with a remaining
\* capacity of 0 or less, the run stops at that iteration without appending
\* anything, whatever the parsed reply holds (a results key or none, an
\* empty or a non-empty next_action).
C19_FullBudgetStops ==
    [][(pc = "extract" /\ Parsed.type = "object"
          /\ max_results - Len(all_results) <= 0) =>
          (pc' \in {"returned", "raised"} /\ all_results' = all_results)]_vars

\* C20: when an exchange exhausts the depth budget (a tool round trip on each
\* of the 5 service calls), the synthetic text is read as a reply with no
\* results and no next action: the run ends at that iteration, also when
\* iteration budget remains, and returns the results accumulated before.
C20_DepthExhaustionEndsRun ==
    [][(pc = "extract" /\ round_trips = DefaultMaxCalls /\ last_call = "ok"
          /\ response.cls = "Obj") =>
          /\ api_calls = DefaultMaxCalls
          /\ result' = EmptyDict
          /\ pc' = "returned"
          /\ stop' = "no_next_action"
          /\ exchanges' = exchanges
          /\ all_results' = all_results
          /\ ret'.results = all_results]_vars

\* the first exchange of a budget of two used its 5 calls on tool round
\* trips, and the run returned after that single iteration
C20_Witness ==
    /\ pc = "returned"
    /\ round_trips = DefaultMaxCalls
    /\ last_call = "ok"
    /\ response.cls = "Obj"
    /\ max_searches = 2
    /\ search_count = 1
    /\ exchanges = 1
    /\ ~HasNote(ret.comments)

\* C21: with an iteration budget of 0 or less, process_task issues no
\* exchange and returns a result object with empty results; it does not raise.
C21_ZeroBudgetReturns ==
    /\ [](max_searches <= 0 => (exchanges = 0 /\ pc # "raised"))
    /\ []((max_searches <= 0 /\ pc = "returned") => ret.results = <<>>)
    /\ [][(max_searches <= 0 /\ pc = "loop") => pc' = "returned"]_vars

====
